---- MODULE Spec2Model ----
(***************************************************************************)
(* Model of frontend/src/context/AuthContext.tsx (AuthProvider).           *)
(*                                                                         *)
(* The component keeps one AuthState record and changes it from            *)
(*   - the onAuthStateChanged callback (an async function: a synchronous   *)
(*     part, then for a presence event a continuation that runs when       *)
(*     apiClient.getProfile settles),                                      *)
(*   - login / signup / logout (async functions, one step per await),      *)
(*   - clearError.                                                         *)
(* Everything runs on one thread: a step of the model is the code that     *)
(* runs between two suspension points.  React applies queued setState      *)
(* updates in the order they were issued, so a setState call is modelled   *)
(* as an immediate update of the state record.                             *)
(***************************************************************************)
EXTENDS Naturals, Sequences, FiniteSets, Bags

\* ---------------------------------------------------------------- bounds
MaxFetches == 2      \* listener invocations suspended at getProfile at once
MaxOps     == 1      \* login / signup / logout calls suspended at once

\* ----------------------------------------------------------- value domains
Null       == "null"            \* JavaScript null in a string-typed field
NullUser   == [null |-> TRUE]   \* JavaScript null in AuthState.user
Absent     == "absent"          \* the provider has no session (firebaseUser = null)
NotFired   == "not fired"       \* the listener has not been called yet
NoField    == "no field"        \* the profile object has no uid property
NoThrow    == [none |-> TRUE]   \* no error was thrown
Uids       == {"u1", "u2"}
Emails     == {"a@x.com"}
Messages   == {"invalid credentials"}

\* what apiClient.getProfile can resolve with: an object spread into user,
\* with or without a uid property of its own
Profiles   == [email : Emails, uid : Uids \cup {NoField}]
\* the profiles of a backend that leaves uid to the identity provider
PlainProfiles == [email : Emails, uid : {NoField}]
\* what a collaborator can throw / reject with: an Error or any other value
Thrown     == [isError : BOOLEAN, message : Messages]

ProfileFailedMsg == "Failed to load profile"
LoginFailedMsg   == "Login failed"
SignupFailedMsg  == "Signup failed"

VARIABLES
  state,       \* the AuthState held by useState
  cache,       \* the subject id held by authManager (Null when cleared)
  session,     \* the provider's live session subject, or Absent
  emitted,     \* the argument of the latest listener call, or NotFired
  fetches,     \* the listener invocations suspended at getProfile, in the
               \* order their events arrived: the uid each one captured
  latest,      \* what became of the getProfile call of the most recent
               \* presence event: "pending", "ok", "failed" ("none": no
               \* presence event yet)
  ops,         \* the bag of suspended login / signup / logout calls, each
               \* <<kind, the call it awaits>>
  settled,     \* the promise that settled last: which call, what its
               \* collaborator threw or returned, how it settled
  subscribed   \* the onAuthStateChanged subscription is active

vars == <<state, cache, session, emitted, fetches, latest, ops, settled, subscribed>>

\* ------------------------------------------------------- state updates
InitialState ==
  [user |-> NullUser, isAuthenticated |-> FALSE, isLoading |-> TRUE, error |-> Null]

\* { uid, ...profile }: a uid property of the profile replaces the event's uid
MergeUser(uid, profile) ==
  [uid   |-> IF profile.uid = NoField THEN uid ELSE profile.uid,
   email |-> profile.email]

\* a commit that forgets to end the loading phase
CommitAuthenticatedStillLoading(uid, profile) ==
  [user |-> MergeUser(uid, profile), isAuthenticated |-> TRUE,
   isLoading |-> TRUE, error |-> Null]

CommitAuthenticated(uid, profile) ==
  [user |-> MergeUser(uid, profile), isAuthenticated |-> TRUE,
   isLoading |-> FALSE, error |-> Null]

\* a catch branch that resets error instead of setting it
CommitProfileFailedClearsError(prev) ==
  [prev EXCEPT !.error = Null]

\* a catch branch that treats a failed profile fetch as a sign-out
CommitProfileFailedSignsOut(prev) ==
  [user |-> NullUser, isAuthenticated |-> FALSE, isLoading |-> FALSE,
   error |-> ProfileFailedMsg]

CommitProfileFailed(prev) ==
  [prev EXCEPT !.error = ProfileFailedMsg]

\* an absence branch that drops the user and keeps the flag
CommitSignedOutStaleFlag ==
  [user |-> NullUser, isAuthenticated |-> TRUE, isLoading |-> FALSE, error |-> Null]

\* an absence branch that keeps the loading phase open
CommitSignedOutStillLoading ==
  [user |-> NullUser, isAuthenticated |-> FALSE, isLoading |-> TRUE, error |-> Null]

\* an absence branch that spreads prev and so keeps the old error
CommitSignedOutKeepsError ==
  [user |-> NullUser, isAuthenticated |-> FALSE, isLoading |-> FALSE,
   error |-> state.error]

CommitSignedOut ==
  [user |-> NullUser, isAuthenticated |-> FALSE, isLoading |-> FALSE, error |-> Null]

StartOperation(prev) ==
  [prev EXCEPT !.isLoading = TRUE, !.error = Null]

Fallback(kind) ==
  IF kind = "login" THEN LoginFailedMsg ELSE SignupFailedMsg

\* a catch branch that reads .message off whatever was thrown
ErrMsgAnyMessage(e, kind) ==
  e.message

\* error instanceof Error ? error.message : 'Login failed'
ErrMsg(e, kind) ==
  IF e.isError THEN e.message ELSE Fallback(kind)

\* a catch branch that resets the whole record
FailOperationSignsOut(prev, e, kind) ==
  [user |-> NullUser, isAuthenticated |-> FALSE, isLoading |-> FALSE,
   error |-> ErrMsg(e, kind)]

FailOperation(prev, e, kind) ==
  [prev EXCEPT !.isLoading = FALSE, !.error = ErrMsg(e, kind)]

\* the settlement of the promise returned by login / signup after catch
RethrowSettle(e) ==
  [outcome |-> "rejected", reason |-> e]

\* a logout whose catch branch rethrows, as login's does
LogoutSettleRethrows(e) ==
  [outcome |-> "rejected", reason |-> e]

\* the settlement of the listener's promise when a call outside its try
\* block throws
UncaughtSettle(e) ==
  [outcome |-> "rejected", reason |-> e]

\* the settlement of the promise returned by logout after catch
LogoutSettle(e) ==
  [outcome |-> "resolved", reason |-> NoThrow]

\* a clearError that flips error between null and a placeholder
ClearErrorToggles(prev) ==
  [prev EXCEPT !.error = IF prev.error = Null THEN "cleared" ELSE Null]

\* a clearError that also ends the loading phase
ClearErrorResetsLoading(prev) ==
  [prev EXCEPT !.error = Null, !.isLoading = FALSE]

ClearErrorUpdate(prev) ==
  [prev EXCEPT !.error = Null]

\* ------------------------------------------------------------- helpers
\* setState(next): React applies the update while the provider component is
\* mounted; the update of an unmounted component is dropped.  The component
\* is mounted exactly while the effect's subscription has not been cleaned up.
setState(next) ==
  IF subscribed THEN next ELSE state

NoneSettled ==
  [call |-> "none", caught |-> NoThrow, outcome |-> "none", reason |-> NoThrow,
   value |-> NoThrow, after |-> "none"]

\* the async function `call` returned or threw after its collaborator threw
\* `caught` (NoThrow: nothing was thrown)
Settle(call, caught, how) ==
  [call |-> call, caught |-> caught, outcome |-> how.outcome, reason |-> how.reason,
   value |-> NoThrow, after |-> "none"]

\* getProfile settled; `after` is "login" when the promise that had settled
\* just before it was that of a login that resolved
SettleProfile(outcome, value) ==
  [call |-> "getProfile", caught |-> NoThrow, outcome |-> outcome, reason |-> NoThrow,
   value |-> value,
   after |-> IF settled.call = "login" /\ settled.outcome = "resolved"
               THEN "login" ELSE "none"]

Returned == [outcome |-> "resolved", reason |-> NoThrow]

\* a call of logout suspended at auth.signOut; `auth` records whether the
\* state was authenticated when logout was called
LogoutCall(auth) == <<"logout", "signOut", auth>>

\* logout settled; `after` is "authenticated" when logout was called in an
\* authenticated state and the state is still authenticated now
SettleLogout(caught, how, auth) ==
  [Settle("logout", caught, how) EXCEPT
     !.after = IF auth /\ state.isAuthenticated THEN "authenticated" ELSE "none"]

\* the sequence without its i-th element
Remove(seq, i) ==
  SubSeq(seq, 1, i - 1) \o SubSeq(seq, i + 1, Len(seq))

Suspend(kind, pc) == ops (+) SetToBag({<<kind, pc>>})
Resume(kind, pc)  == ops (-) SetToBag({<<kind, pc>>})
Suspended(kind, pc) == BagIn(<<kind, pc>>, ops)
SignInKinds == {"login", "signup"}

Init ==
  /\ state = InitialState
  /\ cache = Null
  /\ session \in Uids \cup {Absent}
  /\ emitted = NotFired
  /\ fetches = <<>>
  /\ latest = "none"
  /\ ops = EmptyBag
  /\ settled = NoneSettled
  /\ subscribed = TRUE

\* ---------------------------------------------- the identity provider
\* The session changes for a reason outside this component (another tab,
\* token revocation, expiry).
ProviderSessionChange(u) ==
  /\ subscribed
  /\ u # session
  /\ session' = u
  /\ UNCHANGED <<state, cache, emitted, fetches, latest, ops, settled, subscribed>>

\* ------------------------------------------- onAuthStateChanged callback
\* The provider calls the listener when the session subject differs from the
\* one it notified last.
\* Presence: capture uid, call getProfile, suspend.
HandlePresence ==
  /\ subscribed
  /\ session # Absent
  /\ emitted # session
  /\ Len(fetches) < MaxFetches
  /\ emitted' = session
  /\ fetches' = Append(fetches, session)
  /\ latest' = "pending"
  /\ UNCHANGED <<state, cache, session, ops, settled, subscribed>>

\* an absence branch that leaves the cache alone
HandleAbsenceKeepsCache ==
  /\ subscribed
  /\ session = Absent
  /\ emitted # session
  /\ emitted' = Absent
  /\ state' = setState(CommitSignedOut)
  /\ UNCHANGED <<cache, session, fetches, latest, ops, settled, subscribed>>

\* Absence: clearAuth, then setState to the signed-out record.
HandleAbsence ==
  /\ subscribed
  /\ session = Absent
  /\ emitted # session
  /\ emitted' = Absent
  /\ cache' = Null
  /\ state' = setState(CommitSignedOut)
  /\ UNCHANGED <<session, fetches, latest, ops, settled, subscribed>>

\* getProfile resolved with p: setState to the authenticated record, then setAuth.
GetProfileResolved(i, p) ==
  /\ fetches' = Remove(fetches, i)
  /\ latest' = IF i = Len(fetches) /\ latest = "pending" THEN "ok" ELSE latest
  /\ state' = setState(CommitAuthenticated(fetches[i], p))
  /\ cache' = fetches[i]
  /\ settled' = SettleProfile("resolved", p)
  /\ UNCHANGED <<session, emitted, ops, subscribed>>

\* getProfile rejected: the catch branch.
GetProfileRejected(i) ==
  /\ fetches' = Remove(fetches, i)
  /\ latest' = IF i = Len(fetches) /\ latest = "pending" THEN "failed" ELSE latest
  /\ state' = setState(CommitProfileFailed(state))
  /\ settled' = SettleProfile("rejected", NoThrow)
  /\ UNCHANGED <<cache, session, emitted, ops, subscribed>>

\* Absence, and authManager.clearAuth throws e: the call is outside the try
\* block, so the listener's promise rejects and setState is not reached.
\* Whether the cache was cleared before the throw is not known.
ClearAuthThrew(e) ==
  /\ subscribed
  /\ session = Absent
  /\ emitted # session
  /\ emitted' = Absent
  /\ cache' \in {cache, Null}
  /\ settled' = Settle("listener", e, UncaughtSettle(e))
  /\ UNCHANGED <<state, session, fetches, latest, ops, subscribed>>

\* getProfile resolved with p, setState to the authenticated record, and
\* authManager.setAuth throws e: the catch branch sets error on top of the
\* record just committed.  Whether the cache was written is not known.
SetAuthThrew(i, p, e) ==
  /\ fetches' = Remove(fetches, i)
  /\ latest' = IF i = Len(fetches) /\ latest = "pending" THEN "ok" ELSE latest
  /\ state' = setState(CommitProfileFailed(CommitAuthenticated(fetches[i], p)))
  /\ cache' \in {cache, fetches[i]}
  /\ settled' = Settle("listener", e, Returned)
  /\ UNCHANGED <<session, emitted, ops, subscribed>>

\* --------------------------------------------------------- login / signup
\* setState(isLoading, error cleared), call apiClient.login / signup, suspend.
SignInStart(kind) ==
  /\ BagCardinality(ops) < MaxOps
  /\ state' = setState(StartOperation(state))
  /\ ops' = Suspend(kind, "backend")
  /\ UNCHANGED <<cache, session, emitted, fetches, latest, settled, subscribed>>

\* apiClient.login / signup resolved with a custom token: call
\* signInWithCustomToken, suspend.
BackendResolved(kind) ==
  /\ Suspended(kind, "backend")
  /\ ops' = Resume(kind, "backend") (+) SetToBag({<<kind, "exchange">>})
  /\ UNCHANGED <<state, cache, session, emitted, fetches, latest, settled, subscribed>>

\* apiClient.login / signup (pc = "backend") or signInWithCustomToken
\* (pc = "exchange") rejected with e: the catch branch.
SignInFailed(kind, pc, e) ==
  /\ Suspended(kind, pc)
  /\ ops' = Resume(kind, pc)
  /\ state' = setState(FailOperation(state, e, kind))
  /\ settled' = Settle(kind, e, RethrowSettle(e))
  /\ UNCHANGED <<cache, session, emitted, fetches, latest, subscribed>>

\* signInWithCustomToken resolved: the provider's session is now u; the
\* function returns.
ExchangeResolved(kind, u) ==
  /\ Suspended(kind, "exchange")
  /\ ops' = Resume(kind, "exchange")
  /\ session' = u
  /\ settled' = Settle(kind, NoThrow, Returned)
  /\ UNCHANGED <<state, cache, emitted, fetches, latest, subscribed>>

\* ----------------------------------------------------------------- logout
\* call auth.signOut, suspend.
LogoutStart ==
  /\ BagCardinality(ops) < MaxOps
  /\ ops' = ops (+) SetToBag({LogoutCall(state.isAuthenticated)})
  /\ UNCHANGED <<state, cache, session, emitted, fetches, latest, settled, subscribed>>

\* auth.signOut resolved: the provider has no session.  apiClient.logout() is
\* then called and not awaited: it returns (its promise, however it settles,
\* is dropped) and the function returns.
SignOutResolved ==
  /\ \E auth \in BOOLEAN :
       /\ BagIn(LogoutCall(auth), ops)
       /\ ops' = ops (-) SetToBag({LogoutCall(auth)})
       /\ settled' = SettleLogout(NoThrow, Returned, auth)
  /\ session' = Absent
  /\ UNCHANGED <<state, cache, emitted, fetches, latest, subscribed>>

\* auth.signOut resolved and apiClient.logout() threw e synchronously: the
\* catch branch.
BackendLogoutThrew(e) ==
  /\ \E auth \in BOOLEAN :
       /\ BagIn(LogoutCall(auth), ops)
       /\ ops' = ops (-) SetToBag({LogoutCall(auth)})
       /\ settled' = SettleLogout(e, LogoutSettle(e), auth)
  /\ session' = Absent
  /\ UNCHANGED <<state, cache, emitted, fetches, latest, subscribed>>

\* auth.signOut rejected with e: the catch branch.
SignOutRejected(e) ==
  /\ \E auth \in BOOLEAN :
       /\ BagIn(LogoutCall(auth), ops)
       /\ ops' = ops (-) SetToBag({LogoutCall(auth)})
  /\ settled' = Settle("logout", e, LogoutSettle(e))
  /\ UNCHANGED <<state, cache, session, emitted, fetches, latest, subscribed>>

\* ------------------------------------------------------------- clearError
ClearError ==
  /\ state' = setState(ClearErrorUpdate(state))
  /\ UNCHANGED <<cache, session, emitted, fetches, latest, ops, settled, subscribed>>

\* ---------------------------------------------------------------- cleanup
\* The provider component unmounts and the effect's cleanup calls unsubscribe:
\* the listener is not called again.  Calls already suspended at an await
\* run on, and login, signup, logout and clearError stay callable through
\* references taken before; their setState calls are no longer applied.
Dispose ==
  /\ subscribed
  /\ subscribed' = FALSE
  /\ UNCHANGED <<state, cache, session, emitted, fetches, latest, ops, settled>>

Next ==
  \/ \E u \in Uids \cup {Absent} : ProviderSessionChange(u)
  \/ HandlePresence
  \/ HandleAbsence
  \/ \E i \in DOMAIN fetches : \E p \in Profiles : GetProfileResolved(i, p)
  \/ \E i \in DOMAIN fetches : GetProfileRejected(i)
  \/ \E kind \in SignInKinds : SignInStart(kind)
  \/ \E kind \in SignInKinds : BackendResolved(kind)
  \/ \E kind \in SignInKinds : \E pc \in {"backend", "exchange"} : \E e \in Thrown :
        SignInFailed(kind, pc, e)
  \/ \E kind \in SignInKinds : \E u \in Uids : ExchangeResolved(kind, u)
  \/ LogoutStart
  \/ SignOutResolved
  \/ \E e \in Thrown : BackendLogoutThrew(e)
  \/ \E e \in Thrown : SignOutRejected(e)
  \/ ClearError

\* the component while it is mounted
Spec == Init /\ [][Next]_vars

\* the mounted component with a backend whose profiles carry no uid property
NextPlainProfile ==
  \/ \E u \in Uids \cup {Absent} : ProviderSessionChange(u)
  \/ HandlePresence
  \/ HandleAbsence
  \/ \E i \in DOMAIN fetches : \E p \in PlainProfiles : GetProfileResolved(i, p)
  \/ \E i \in DOMAIN fetches : GetProfileRejected(i)
  \/ \E kind \in SignInKinds : SignInStart(kind)
  \/ \E kind \in SignInKinds : BackendResolved(kind)
  \/ \E kind \in SignInKinds : \E pc \in {"backend", "exchange"} : \E e \in Thrown :
        SignInFailed(kind, pc, e)
  \/ \E kind \in SignInKinds : \E u \in Uids : ExchangeResolved(kind, u)
  \/ LogoutStart
  \/ SignOutResolved
  \/ \E e \in Thrown : BackendLogoutThrew(e)
  \/ \E e \in Thrown : SignOutRejected(e)
  \/ ClearError

SpecPlainProfile == Init /\ [][NextPlainProfile]_vars

\* the component's whole life, unmounting included
NextLifecycle ==
  \/ Next
  \/ Dispose

SpecLifecycle == Init /\ [][NextLifecycle]_vars

\* the mounted component with a cache (authManager) whose calls can throw
NextCacheFaults ==
  \/ Next
  \/ \E e \in Thrown : ClearAuthThrew(e)
  \/ \E i \in DOMAIN fetches : \E p \in Profiles : \E e \in Thrown : SetAuthThrew(i, p, e)

SpecCacheFaults == Init /\ [][NextCacheFaults]_vars

TypeOK ==
  /\ state.isLoading \in BOOLEAN
  /\ cache \in Uids \cup {Null}
  /\ session \in Uids \cup {Absent}
  /\ emitted \in Uids \cup {Absent, NotFired}
  /\ Len(fetches) <= MaxFetches
  /\ latest \in {"none", "pending", "ok", "failed"}
  /\ BagCardinality(ops) <= MaxOps

\* ---------------------------------------------------------------------
\* Properties
\* ---------------------------------------------------------------------
Cleared ==
  [user |-> NullUser, isAuthenticated |-> FALSE, isLoading |-> FALSE, error |-> Null]

\* this step is the continuation of the i-th suspended listener invocation
\* after its getProfile resolved
ResolvedStep(i) ==
  /\ fetches' = Remove(fetches, i)
  /\ settled'.call = "getProfile"
  /\ settled'.outcome = "resolved"
\* this step is the continuation of the i-th suspended listener invocation
\* after its getProfile rejected
RejectedStep(i) ==
  /\ fetches' = Remove(fetches, i)
  /\ settled'.call = "getProfile"
  /\ settled'.outcome = "rejected"
\* this step is the listener's absence branch
AbsenceStep == emitted # Absent /\ emitted' = Absent
\* this step settles the promise of a call of `kind`
SettlingStep(kind) ==
  /\ BagCardinality(ops') < BagCardinality(ops)
  /\ settled'.call = kind
\* a login or signup call is suspended at one of its awaits
SignInInFlight ==
  \E kind \in SignInKinds : \E pc \in {"backend", "exchange"} : Suspended(kind, pc)
\* a listener invocation is suspended at getProfile
FetchPending == Len(fetches) > 0

\* C1: in every reachable state isAuthenticated is true exactly when user is
\* present.
C1_AuthenticatedIffUser ==
  state.isAuthenticated <=> (state.user # NullUser)

\* C1 witness: an authenticated state reached while a sign-in call has failed
\* and another call is in flight.
C1_Witness ==
  /\ state.isAuthenticated
  /\ state.user # NullUser
  /\ settled.call \in SignInKinds
  /\ BagCardinality(ops) > 0

\* C2: when an absence event has been handled while the fetch issued for an
\* earlier presence event was pending, the fetch's later success is discarded:
\* the state it leaves has user absent and isAuthenticated false.
C2_StaleFetchDiscarded ==
  [][\A i \in DOMAIN fetches :
       (emitted = Absent /\ ResolvedStep(i))
         => (state'.user = NullUser /\ ~state'.isAuthenticated)]_vars

\* C3: for presence events A then B (A # B), once the fetches of both have
\* resolved successfully and B's event is still the latest one, state.user.uid
\* is B.
C3_NewerSubjectWins ==
  [][\A i \in DOMAIN fetches :
       \* B's event is the latest one, and the fetch of A, issued before it,
       \* resolves ...
       ( /\ ResolvedStep(i)
         /\ emitted \in Uids
         \* ... as the second of the two
         /\ \/ fetches[i] # emitted /\ latest = "ok"
         \* ... or B's own fetch resolves
            \/ i = Len(fetches) /\ latest = "pending" )
       => (state'.user # NullUser /\ state'.user.uid = emitted)]_vars

\* C4: whenever user is present, user.uid is the subject of the most recently
\* emitted session-change event.
C4_UidIsCurrentSubject ==
  state.user # NullUser => state.user.uid = emitted

\* C5: the absence branch commits exactly {user: null, isAuthenticated: false,
\* isLoading: false, error: null} and leaves the cache cleared, whatever the
\* state before and whatever is in flight.
C5_AbsenceClears ==
  [][AbsenceStep => (state' = Cleared /\ cache' = Null)]_vars

\* C5 witness: the absence event was handled after a user had been committed
\* and while another fetch was pending.
C5_Witness ==
  /\ emitted = Absent
  /\ state = Cleared
  /\ cache = Null
  /\ settled.call = "getProfile"
  /\ settled.outcome = "resolved"
  /\ FetchPending

\* C6: a failed getProfile sets error to "Failed to load profile" and leaves
\* user and isAuthenticated as they were.
C6_ProfileFailureKeepsUser ==
  [][\A i \in DOMAIN fetches :
       RejectedStep(i)
         => /\ state'.error = ProfileFailedMsg
            /\ state'.user = state.user
            /\ state'.isAuthenticated = state.isAuthenticated]_vars

\* C6 witness: a fetch failed while a user was committed, and the user is
\* still there.
C6_Witness ==
  /\ settled.call = "getProfile"
  /\ settled.outcome = "rejected"
  /\ state.error = ProfileFailedMsg
  /\ state.isAuthenticated
  /\ state.user # NullUser

\* C7: isLoading is true only before the first listener call has been handled
\* or while a login/signup call is in flight.  (A listener invocation still
\* waiting for getProfile counts here as not yet handled.)
C7_LoadingOnlyWhilePending ==
  state.isLoading => (emitted = NotFired \/ FetchPending \/ SignInInFlight)

\* C8 as stated: a failed login/signup sets isLoading to false and error to
\* the failure's message, leaves user and isAuthenticated alone, and rejects
\* with the originating error.
C8_FailureRecordsMessage ==
  [][\A kind \in SignInKinds :
       (SettlingStep(kind) /\ settled'.caught # NoThrow)
         => /\ state' = [state EXCEPT !.isLoading = FALSE,
                                      !.error = settled'.caught.message]
            /\ settled'.outcome = "rejected"
            /\ settled'.reason = settled'.caught]_vars

\* C8 amended: a failed login/signup sets isLoading to false and error to the
\* failure's message when the failure is an Error, and to "Login failed"
\* (login) or "Signup failed" (signup) when it is any other value; it leaves
\* user and isAuthenticated alone and rejects with the originating error.
C8_FailureRecordsMessageOrFallback ==
  [][\A kind \in SignInKinds :
       (SettlingStep(kind) /\ settled'.caught # NoThrow)
         => /\ state' = [state EXCEPT
                 !.isLoading = FALSE,
                 !.error = IF settled'.caught.isError
                             THEN settled'.caught.message
                             ELSE IF kind = "login" THEN LoginFailedMsg
                                                    ELSE SignupFailedMsg]
            /\ settled'.outcome = "rejected"
            /\ settled'.reason = settled'.caught]_vars

\* C8 witness: a signup rejected with a value that is not an Error while a
\* user was committed; the fallback message is in error.
C8_Witness ==
  /\ settled.call = "signup"
  /\ settled.outcome = "rejected"
  /\ ~settled.caught.isError
  /\ state.error = SignupFailedMsg
  /\ ~state.isLoading
  /\ state.isAuthenticated

\* C9: a login whose backend call and token exchange both succeed resolves,
\* and when the fetch of a presence event for u then succeeds with profile p
\* the state is {user: {uid: u, ...p}, isAuthenticated: true, isLoading:
\* false, error: null}.
C9_LoginThenPresence ==
  /\ [][(SettlingStep("login") /\ settled'.caught = NoThrow)
          => settled'.outcome = "resolved"]_vars
  /\ [][\A i \in DOMAIN fetches :
          ( /\ settled.call = "login"
            /\ settled.outcome = "resolved"
            /\ ResolvedStep(i) )
          => state' =
               [user |-> [uid   |-> IF settled'.value.uid = NoField
                                      THEN fetches[i]
                                      ELSE settled'.value.uid,
                          email |-> settled'.value.email],
                isAuthenticated |-> TRUE, isLoading |-> FALSE, error |-> Null]]_vars

\* C9 witness: the fetch resolved right after a login had resolved, for the
\* subject the provider holds, and the state is the authenticated one.
C9_Witness ==
  /\ settled.call = "getProfile"
  /\ settled.outcome = "resolved"
  /\ settled.after = "login"
  /\ state.user # NullUser
  /\ state.user.uid = session
  /\ emitted = session
  /\ state.isAuthenticated
  /\ ~state.isLoading
  /\ state.error = Null

\* C10: the promise of logout resolves whatever signOut and the backend
\* logout do, and no step of logout changes the state.
C10_LogoutNeverRejects ==
  /\ [](settled.call = "logout" => settled.outcome = "resolved")
  /\ [][SettlingStep("logout") => state' = state]_vars

\* C10 witness: a logout whose collaborator threw has resolved, the user is
\* still committed and error is empty.
C10_Witness ==
  /\ settled.call = "logout"
  /\ settled.caught # NoThrow
  /\ settled.outcome = "resolved"
  /\ state.isAuthenticated
  /\ state.error = Null

\* this step is a call of clearError: the only step that changes nothing but
\* the state record
ClearErrorStep ==
  /\ state' # state
  /\ UNCHANGED <<cache, session, emitted, fetches, latest, ops, settled, subscribed>>
\* this step is the start of a login or signup call
SignInStartStep ==
  \E kind \in SignInKinds :
    CopiesIn(<<kind, "backend">>, ops') > CopiesIn(<<kind, "backend">>, ops)
\* this step is the catch branch of a login or signup call
SignInFailedStep ==
  \E kind \in SignInKinds : SettlingStep(kind) /\ settled'.caught # NoThrow

\* the logout that settled last was called while the state was authenticated
\* and its sign-out succeeded while the state was still authenticated
LogoutFromAuthenticated ==
  /\ settled.call = "logout"
  /\ settled.outcome = "resolved"
  /\ settled.caught = NoThrow
  /\ settled.after = "authenticated"
\* no listener invocation and no call is suspended
Quiescent == fetches = <<>> /\ ops = EmptyBag

\* C11: when logout was called while the state was authenticated and its
\* sign-out succeeded, handling the provider's resulting absence event leaves
\* the state {user: null, isAuthenticated: false, isLoading: false, error:
\* null} and the cache cleared; and that state is final: with nothing else in
\* flight the cache stays cleared and the state stays as it is until a new
\* login or signup call starts.
C11_LogoutThenAbsence ==
  /\ [][(LogoutFromAuthenticated /\ state.isAuthenticated /\ AbsenceStep)
         => (state' = Cleared /\ cache' = Null)]_vars
  /\ [][(LogoutFromAuthenticated /\ emitted = Absent /\ ~state.isAuthenticated
          /\ Quiescent)
         => /\ state = Cleared
            /\ cache = Null
            /\ cache' = cache
            /\ state' # state => SignInStartStep]_vars

\* C11 witness: logout was called in an authenticated state, its sign-out
\* succeeded while the state was still authenticated, and the absence event
\* has since been handled: state and cache are cleared and nothing is in
\* flight.
C11_Witness ==
  /\ LogoutFromAuthenticated
  /\ session = Absent
  /\ emitted = Absent
  /\ Quiescent
  /\ state = Cleared
  /\ cache = Null

\* C12: calling clearError twice in a row gives the state that calling it
\* once gives, from every reachable state.
C12_ClearErrorIdempotent ==
  ClearErrorUpdate(ClearErrorUpdate(state)) = ClearErrorUpdate(state)

\* C12 witness: clearError has been applied to a state with an error (a
\* failed sign-in before the first listener call) and applying it again
\* changes nothing.
C12_Witness ==
  /\ emitted = NotFired
  /\ settled.call \in SignInKinds
  /\ settled.outcome = "rejected"
  /\ ~state.isLoading
  /\ state.error = Null
  /\ ClearErrorUpdate(state) = state

\* C13: a call of clearError sets error to null and leaves user,
\* isAuthenticated and isLoading as they were, whatever is in flight.
C13_ClearErrorFrame ==
  [][ClearErrorStep => state' = [state EXCEPT !.error = Null]]_vars

\* C13 witness: clearError removed the error of a failed profile fetch while
\* another fetch was in flight and loading was still on.
C13_Witness ==
  /\ settled.call = "getProfile"
  /\ settled.outcome = "rejected"
  /\ BagCardinality(ops) = 0
  /\ emitted \in Uids
  /\ FetchPending
  /\ state.isLoading
  /\ state.error = Null

\* C14 as stated: a present error changes only when a login/signup call
\* starts or clearError is called.
C14_ErrorPersists ==
  [][(state.error # Null /\ state'.error # state.error)
       => (SignInStartStep \/ ClearErrorStep)]_vars

\* C14 amended: a present error becomes null only when a login/signup call
\* starts, clearError is called, or the listener commits (absence event or
\* successful profile fetch); it is replaced by another message only by a
\* later failure (profile fetch, login or signup).
C14_ErrorPersistsUntilCommit ==
  [][(state.error # Null /\ state'.error # state.error)
       => IF state'.error = Null
            THEN \/ SignInStartStep
                 \/ ClearErrorStep
                 \/ AbsenceStep
                 \/ \E i \in DOMAIN fetches : ResolvedStep(i)
            ELSE \/ SignInFailedStep
                 \/ \E i \in DOMAIN fetches : RejectedStep(i)]_vars

\* C14 witness: the error of a failed login is still there after a logout
\* has run to its end.
C14_Witness ==
  /\ settled.call = "logout"
  /\ state.error \in Messages \cup {LoginFailedMsg}
  /\ ~state.isLoading

\* C15: after the subscription has been cancelled no step changes the state
\* record or the cache, neither a session-change event nor the continuation
\* of a profile fetch that was in flight.
C15_NoCommitAfterDispose ==
  [][~subscribed => (subscribed' = subscribed /\ state' = state /\ cache' = cache)]_vars

\* this step is a listener invocation ending after a cache call threw
ListenerFaultStep ==
  /\ settled'.call = "listener"
  /\ (emitted' # emitted \/ fetches' # fetches)

\* C16: whichever collaborator fails (getProfile, setAuth, clearAuth), the
\* listener's promise does not reject and the failure is recorded in error.
C16_ListenerNeverThrows ==
  [][/\ ListenerFaultStep => (settled'.outcome = "resolved" /\ state'.error # Null)
     /\ \A i \in DOMAIN fetches : RejectedStep(i) => state'.error # Null]_vars

\* C17: the record committed on a successful profile fetch has the uid of the
\* presence event that issued the fetch, whatever the profile holds; the other
\* user fields are the profile's, isAuthenticated is true, isLoading false and
\* error null.
C17_UidFromEvent ==
  [][\A i \in DOMAIN fetches :
       ResolvedStep(i)
         => state' = [user |-> [uid |-> fetches[i], email |-> settled'.value.email],
                      isAuthenticated |-> TRUE, isLoading |-> FALSE,
                      error |-> Null]]_vars

\* this step is the start or the end of a logout call
LogoutStep ==
  \E auth \in BOOLEAN : CopiesIn(LogoutCall(auth), ops') # CopiesIn(LogoutCall(auth), ops)

\* C18: no step of login, signup or logout changes user or isAuthenticated:
\* the start of login/signup sets isLoading to true and error to null, its
\* other steps change at most isLoading and error, and the steps of logout
\* change nothing.
C18_OnlyListenerCommitsUser ==
  [][ops' # ops =>
       /\ state'.user = state.user
       /\ state'.isAuthenticated = state.isAuthenticated
       /\ SignInStartStep => state' = [state EXCEPT !.isLoading = TRUE, !.error = Null]
       /\ LogoutStep => state' = state]_vars

\* C18 witness: a login failed with an Error while a user was committed; the
\* user is still there and only isLoading and error have changed.
C18_Witness ==
  /\ settled.call = "login"
  /\ settled.outcome = "rejected"
  /\ settled.caught.isError
  /\ state.user # NullUser
  /\ state.isAuthenticated
  /\ ~state.isLoading
  /\ state.error = settled.caught.message

\* C19: the cache holds a subject id exactly when isAuthenticated is true; it
\* is written only together with a commit of the listener, and the id written
\* with an authenticated commit is the uid captured from the presence event.
C19_CacheFollowsState ==
  /\ []((cache # Null) <=> state.isAuthenticated)
  /\ [][\A i \in DOMAIN fetches :
          ResolvedStep(i) => (cache' = fetches[i] /\ state'.isAuthenticated)]_vars
  /\ [][cache' # cache
          => (AbsenceStep \/ \E i \in DOMAIN fetches : ResolvedStep(i))]_vars

\* C19 witness: the profile carried a uid of its own; the cache holds the uid
\* of the event, not the one in user.
C19_Witness ==
  /\ state.isAuthenticated
  /\ cache \in Uids
  /\ settled.call = "getProfile"
  /\ settled.outcome = "resolved"
  /\ settled.value.uid # NoField
  /\ state.user.uid # cache

\* C20: while a login or signup call is in flight, isLoading is true.
C20_LoadingWhileInFlight ==
  SignInInFlight => state.isLoading
====
